---- MODULE Spec2Model ----
(***************************************************************************)
(* Migration worker of fastify-bullmq.  The repository holds three         *)
(* revisions of the queue processor and two of the intake handler:         *)
(*   "queue"    src/src/queue.ts      (snapshot placeholder, components)   *)
(*   "part_001" src/unnamed/part_001  (mock snapshot store, components)    *)
(*   "part_000" src/unnamed/part_000  (mock snapshot store, ignoredItems)  *)
(* The variable variant fixes which revision a behaviour runs; run is the  *)
(* state of the Worker processor callback for the job it is processing,    *)
(* one step per await.  job.log and job.updateProgress are calls to the    *)
(* queue layer and may reject; the fetch stubs never throw.                *)
(* Progress percentages are kept as exact fractions <<num, den>> standing  *)
(* for (num / den) * 100.                                                  *)
(* run2 is a second invocation of the processor, running beside the first  *)
(* (SpecConc).  translator is the identifier translation table of the      *)
(* design (SpecTranslator); the sources declare IdMapping and leave the    *)
(* recording of mappings as a TODO.  intake is the POST /migration         *)
(* handler of index.ts with its clock, its requests, the jobs added to the *)
(* queue and the replies sent (SpecIntake).                                *)
(***************************************************************************)
EXTENDS Integers, Sequences, FiniteSets, TLC

VARIABLES variant, run, run2, translator, intake

vars == <<variant, run, run2, translator, intake>>

\* ---------------------------------------------------------------- bounds
\* Longest components / ignoredItems array a job carries.
MaxNames == 2

\* Largest source or target id handed to the identifier translator.
MaxId == 2

MaxClock == 2

MaxRequests == 2

\* ------------------------------------------------------------- constants
Variants == {"queue", "part_001", "part_000"}

MIGRATION_ORDER ==
  << "custom_statuses", "groups", "custom_roles", "ticket_fields",
     "ticket_forms", "brands", "dynamic_content", "macros", "triggers",
     "trigger_categories", "views", "webhooks", "apps", "skills" >>

\* Property names every plain object inherits from Object.prototype
\* (constructor, toString, valueOf, hasOwnProperty, __proto__, ...), all of
\* them truthy; constructor stands for them.
ProtoNames == {"constructor"}

\* Names a request may carry: catalog names (two of them in the mock
\* snapshot's breakdown, one not), a name the catalog does not know, and
\* such a name that is also an Object.prototype property.
PoolNames == {"groups", "ticket_fields", "ticket_forms", "bogus", "constructor"}

\* source.type as the worker reads it; the first handler of index.ts never
\* sets source.type (it sends a top-level type), the second enforces the enum.
SrcTypes(v) ==
  IF v = "part_000" THEN {"snapshot", "live", "undefined"}
                    ELSE {"snapshot", "live"}

\* source.snapshotId: absent, a falsy value (0 or ""), the id the mock
\* store knows, an id it does not know, and an id it does not know that
\* names an Object.prototype property.
SnapshotIds == {"absent", "falsy", "1", "2", "constructor"}

Truthy(id) == id \notin {"absent", "falsy"}

\* ---------------------------------------------------------------- helpers
Range(s) == {s[k] : k \in 1..Len(s)}

Lists(S, n) == UNION {[1..k -> S] : k \in 0..n}

\* Array.prototype.indexOf on MIGRATION_ORDER (0-based, -1 when absent).
indexOf(a) ==
  IF \E k \in 1..Len(MIGRATION_ORDER) : MIGRATION_ORDER[k] = a
    THEN (CHOOSE k \in 1..Len(MIGRATION_ORDER) :
            /\ MIGRATION_ORDER[k] = a
            /\ \A j \in 1..(k - 1) : MIGRATION_ORDER[j] # a) - 1
    ELSE -1

\* The comparator handed to Array.prototype.sort.
compare(a, b) == indexOf(a) - indexOf(b)

\* Insertion of x behind every element that does not compare greater:
\* the stable placement Array.prototype.sort guarantees.
RECURSIVE insertSorted(_, _)
insertSorted(s, x) ==
  IF s = << >> THEN << x >>
  ELSE IF compare(s[Len(s)], x) <= 0 THEN Append(s, x)
  ELSE Append(insertSorted(SubSeq(s, 1, Len(s) - 1), x), s[Len(s)])

\* components.sort((a, b) => MIGRATION_ORDER.indexOf(a) - MIGRATION_ORDER.indexOf(b))
RECURSIVE sortComponents(_)
sortComponents(s) ==
  IF s = << >> THEN << >>
  ELSE insertSorted(sortComponents(SubSeq(s, 1, Len(s) - 1)), s[Len(s)])

\* Array.prototype.filter with a predicate given as the set of kept values.
RECURSIVE filterSeq(_, _)
filterSeq(s, keep) ==
  IF s = << >> THEN << >>
  ELSE IF s[1] \in keep THEN << s[1] >> \o filterSeq(Tail(s), keep)
  ELSE filterSeq(Tail(s), keep)

\* MIGRATION_ORDER.filter(comp => !ignoredItems.includes(comp))
componentsToMigrate(ignoredItems) ==
  filterSeq(MIGRATION_ORDER, Range(MIGRATION_ORDER) \ Range(ignoredItems))

\* -------------------------------------------------------------- snapshots
\* A Snapshot value as validateSnapshot reads it: null, or an object with
\* an optional breakdown (the set of its keys) and a locked flag.
NullSnapshot ==
  [isNull |-> TRUE, hasBreakdown |-> FALSE, breakdown |-> {}, locked |-> FALSE]

\* {} as Snapshot: no breakdown, locked undefined (falsy).
PlaceholderSnapshot ==
  [isNull |-> FALSE, hasBreakdown |-> FALSE, breakdown |-> {}, locked |-> FALSE]

\* mockSnapshots[1]
MockSnapshot ==
  [isNull |-> FALSE, hasBreakdown |-> TRUE,
   breakdown |-> {"ticket_fields", "ticket_forms"}, locked |-> FALSE]

\* What mockSnapshots inherits under an Object.prototype name (the function
\* Object, Object.prototype, a method): truthy, no breakdown, locked
\* undefined.
InheritedValue ==
  [isNull |-> FALSE, hasBreakdown |-> FALSE, breakdown |-> {}, locked |-> FALSE]

\* mockSnapshots[snapshotId] || null: a property read on an object literal,
\* which also finds inherited properties.
fetchSnapshotFromConvex(snapshotId) ==
  IF snapshotId = "1" THEN MockSnapshot
  ELSE IF snapshotId \in ProtoNames THEN InheritedValue
  ELSE NullSnapshot

\* ------------------------------------------------------------------ errors
NoError == [kind |-> "none", names |-> << >>]
Err(k) == [kind |-> k, names |-> << >>]

\* snapshot.breakdown[comp] is truthy: the breakdown has the key, or the
\* name is inherited from Object.prototype.
hasComponent(snapshot, comp) == comp \in snapshot.breakdown \cup ProtoNames

\* components.filter(comp => !snapshot.breakdown[comp])
missingComponents(snapshot, components) ==
  filterSeq(components,
            {c \in Range(components) : ~hasComponent(snapshot, c)})

\* ------------------------------------------------------- validateSnapshot
\* A validateSnapshot that forgets the locked check.
validateSnapshot_queue_nolock(snapshot, components) ==
  IF components # << >> /\ snapshot.isNull THEN Err("TypeError")
  ELSE IF components # << >> /\ ~snapshot.hasBreakdown
    THEN [kind |-> "TypeError", names |-> << components[1] >>]
  ELSE IF missingComponents(snapshot, components) # << >>
    THEN [kind |-> "Missing", names |-> missingComponents(snapshot, components)]
  ELSE IF snapshot.isNull THEN Err("TypeError")
  ELSE NoError

\* queue.ts: no null and no breakdown check.  The filter callback reads
\* snapshot.breakdown[comp] once per component, so a null snapshot or an
\* undefined breakdown is a TypeError as soon as there is a component (its
\* message quotes the property read, the first component's name); with no
\* component the filter reads nothing and only snapshot.locked is read.
validateSnapshot_queue(snapshot, components) ==
  IF components # << >> /\ snapshot.isNull THEN Err("TypeError")
  ELSE IF components # << >> /\ ~snapshot.hasBreakdown
    THEN [kind |-> "TypeError", names |-> << components[1] >>]
  ELSE IF missingComponents(snapshot, components) # << >>
    THEN [kind |-> "Missing", names |-> missingComponents(snapshot, components)]
  ELSE IF snapshot.isNull THEN Err("TypeError")
  ELSE IF snapshot.locked THEN Err("Locked")
  ELSE NoError

\* A validateSnapshot that reports only the first missing component.
validateSnapshot_part_first(snapshot, components) ==
  IF snapshot.isNull THEN Err("NotFound")
  ELSE IF ~snapshot.hasBreakdown THEN Err("Malformed")
  ELSE IF missingComponents(snapshot, components) # << >>
    THEN [kind |-> "Missing",
          names |-> << missingComponents(snapshot, components)[1] >>]
  ELSE IF snapshot.locked THEN Err("Locked")
  ELSE NoError

\* part_001 and part_000 (the same text): null, breakdown, missing, locked.
validateSnapshot_part(snapshot, components) ==
  IF snapshot.isNull THEN Err("NotFound")
  ELSE IF ~snapshot.hasBreakdown THEN Err("Malformed")
  ELSE IF missingComponents(snapshot, components) # << >>
    THEN [kind |-> "Missing", names |-> missingComponents(snapshot, components)]
  ELSE IF snapshot.locked THEN Err("Locked")
  ELSE NoError

validateSnapshot(v, snapshot, components) ==
  IF v = "queue" THEN validateSnapshot_queue(snapshot, components)
                 ELSE validateSnapshot_part(snapshot, components)

\* -------------------------------------------------------------- job data
\* job.data as the worker destructures it.  ignoredItems is only searched
\* with includes, never used as a property name, so a name of ProtoNames
\* in it is one more unknown name.
JobData(v) ==
  IF v = "part_000"
    THEN [srcType : SrcTypes(v), snapshotId : SnapshotIds,
          components : {<< >>},
          ignoredItems : Lists(PoolNames \ ProtoNames, MaxNames)]
    ELSE [srcType : SrcTypes(v), snapshotId : SnapshotIds,
          components : Lists(PoolNames, MaxNames), ignoredItems : {<< >>}]

NoData ==
  [srcType |-> "live", snapshotId |-> "absent",
   components |-> << >>, ignoredItems |-> << >>]

NoResult == [status |-> "none", hasIdMappings |-> FALSE, idMappings |-> << >>]

\* The worker before its first job.  cancelAt is the number of components
\* started when a cancellation of the job was asked for (-1: never);
\* logAtDone[j] is the number of log lines written when the progress update
\* of the j-th succeeded component returned.
IdleRun ==
  [pc |-> "idle", data |-> NoData, components |-> << >>,
   snapshot |-> NullSnapshot, list |-> << >>, i |-> 0,
   currentStep |-> 0, totalSteps |-> 0,
   started |-> << >>, succeeded |-> << >>, progress |-> << >>,
   log |-> << >>, fetched |-> << >>, error |-> NoError, failedAt |-> 0,
   validated |-> FALSE, vcalled |-> FALSE, vsnapshot |-> NullSnapshot,
   vcomponents |-> << >>, vout |-> NoError, result |-> NoResult,
   cancelAt |-> -1, logAtDone |-> << >>]

Terminal(r) == r.pc \in {"completed", "failed"}

\* source.type === 'snapshot' && source.snapshotId
usesSnapshot(d) == d.srcType = "snapshot" /\ Truthy(d.snapshotId)

\* ---------------------------------------------------------- worker steps
Line(k, c, e) == [kind |-> k, comp |-> c, err |-> e]

Emit(r, line) == [r EXCEPT !.log = Append(@, line)]

\* A processor that counts the distinct requested names as its total.
WorkerStart_distinctTotal(v, d) ==
  [IdleRun EXCEPT
     !.pc = "logInit",
     !.data = d,
     !.components = IF v = "queue" THEN sortComponents(d.components)
                                   ELSE d.components,
     !.list = IF v = "queue" THEN sortComponents(d.components) ELSE << >>,
     !.totalSteps = IF v = "part_000" THEN Len(MIGRATION_ORDER)
                                      ELSE Cardinality(Range(d.components))]

\* The processor's synchronous prefix, up to its first await.
WorkerStart(v, d) ==
  [IdleRun EXCEPT
     !.pc = "logInit",
     !.data = d,
     !.components = IF v = "queue" THEN sortComponents(d.components)
                                   ELSE d.components,
     !.list = IF v = "queue" THEN sortComponents(d.components) ELSE << >>,
     !.totalSteps = IF v = "part_000" THEN Len(MIGRATION_ORDER)
                                      ELSE Len(d.components)]

\* A processor that returns where it should throw.
Fail_returns(r, e) ==
  [r EXCEPT !.pc = "completed", !.error = e,
            !.result = [NoResult EXCEPT !.status = "completed"]]

\* The processor throws: the job is failed with that error.
Fail(r, e) ==
  [r EXCEPT !.pc = "failed", !.error = e,
            !.result = [NoResult EXCEPT !.status = "failed"]]

\* return { status: 'completed', idMappings, jobId } (part_000: no idMappings)
Complete(v, r) ==
  [r EXCEPT !.pc = "completed",
            !.result = [status |-> "completed",
                        hasIdMappings |-> (v # "part_000"),
                        idMappings |-> << >>]]

\* A for...of that stops one element early.
loopDone_early(r) == r.i >= Len(r.list) - 1

\* for (const component of ...): no element left.
loopDone(r) == r.i >= Len(r.list)

\* A loop that never takes its next element.
NextComponent_stalls(v, r) ==
  IF loopDone(r) THEN Complete(v, r)
  ELSE [r EXCEPT !.pc = "stalled"]

\* The loop takes its next element, or the function returns.
NextComponent(v, r) ==
  IF loopDone(r) THEN Complete(v, r)
  ELSE [r EXCEPT !.i = @ + 1,
                 !.started = Append(@, r.list[r.i + 1]),
                 !.pc = "logStart"]

\* The sort (part_001) or the filter (part_000) ahead of the loop, and the
\* loop's first element.
EnterLoop(v, r) ==
  LET cs == IF v = "part_001" THEN sortComponents(r.components)
                              ELSE r.components
      ls == IF v = "part_000" THEN componentsToMigrate(r.data.ignoredItems)
                              ELSE cs
  IN NextComponent(v, [r EXCEPT !.components = cs, !.list = ls, !.i = 0])

\* A throw inside the outer try, outside the loop body.
OuterThrow(r, e) == [r EXCEPT !.pc = "logFatal", !.error = e]

\* A throw inside the loop body's try.
InnerThrow(r, e) ==
  [r EXCEPT !.pc = "logComponentError", !.error = e,
            !.failedAt = IF @ = 0 THEN Len(r.started) ELSE @]

current(r) == r.list[r.i]

\* await job.log(`Initializing migration job at ${jobTempPath}`), ahead of
\* the try: a rejection leaves the processor at once.
LogInitStep(v, r, ok) ==
  IF ~ok THEN Fail(r, Err("IOError"))
  ELSE LET r1 == Emit(r, Line("init", "", ""))
       IN IF usesSnapshot(r.data)
            THEN IF v = "queue"
                   THEN [r1 EXCEPT !.pc = "validate",
                                   !.snapshot = PlaceholderSnapshot]
                   ELSE [r1 EXCEPT !.pc = "logFetchingSnapshot"]
            ELSE EnterLoop(v, r1)

\* await job.log(`Fetching snapshot ${source.snapshotId}`)
LogFetchingSnapshotStep(r, ok) ==
  IF ~ok THEN OuterThrow(r, Err("IOError"))
  ELSE [Emit(r, Line("fetchingSnapshot", "", "")) EXCEPT !.pc = "fetchSnapshot"]

\* snapshot = await fetchSnapshotFromConvex(...); if (!snapshot) throw
FetchSnapshotStep(r) ==
  LET s == fetchSnapshotFromConvex(r.data.snapshotId)
  IN IF s.isNull THEN OuterThrow([r EXCEPT !.snapshot = s], Err("NotFound"))
     ELSE [r EXCEPT !.snapshot = s, !.pc = "logValidating"]

\* await job.log(`Validating snapshot ${snapshot.name}`)
LogValidatingStep(r, ok) ==
  IF ~ok THEN OuterThrow(r, Err("IOError"))
  ELSE [Emit(r, Line("validating", "", "")) EXCEPT !.pc = "validate"]

\* The components handed to validateSnapshot.
validateArgs(v, r) == IF v = "part_000" THEN MIGRATION_ORDER ELSE r.components

\* await validateSnapshot(snapshot, ...)
ValidateStep(v, r) ==
  LET out == validateSnapshot(v, r.snapshot, validateArgs(v, r))
      r1 == [r EXCEPT !.vcalled = TRUE, !.vsnapshot = r.snapshot,
                      !.vcomponents = validateArgs(v, r), !.vout = out]
  IN IF out.kind # "none" THEN OuterThrow(r1, out)
     ELSE IF v = "queue" THEN EnterLoop(v, [r1 EXCEPT !.validated = TRUE])
     ELSE [r1 EXCEPT !.validated = TRUE, !.pc = "logValidated"]

\* await job.log(`Snapshot validation successful`)
LogValidatedStep(v, r, ok) ==
  IF ~ok THEN OuterThrow(r, Err("IOError"))
  ELSE EnterLoop(v, Emit(r, Line("validated", "", "")))

\* await job.log(`Starting migration of ${component}`), the first statement
\* of the loop body and ahead of its try (a rejection goes to the outer
\* catch), then inside the try the choice of the source.  queue.ts reads
\* breakdown[component].file of a fresh {} placeholder, a TypeError; the
\* parts read componentInfo.size.
LogStartStep(v, r, ok) ==
  IF ~ok THEN OuterThrow(r, Err("IOError"))
  ELSE LET r1 == Emit(r, Line("starting", current(r), ""))
       IN IF v = "queue"
            THEN IF usesSnapshot(r.data)
                   THEN InnerThrow(r1, [kind |-> "TypeError",
                                        names |-> << current(r) >>])
                 ELSE [r1 EXCEPT !.pc = "fetchLive"]
            ELSE IF r.data.srcType = "snapshot" /\ ~r.snapshot.isNull
                   THEN IF /\ r.snapshot.hasBreakdown
                           /\ hasComponent(r.snapshot, current(r))
                          THEN [r1 EXCEPT !.pc = "logFetchFromSnapshot"]
                          ELSE InnerThrow(r1, Err("TypeError"))
                   ELSE [r1 EXCEPT !.pc = "logFetchFromLive"]

\* await job.log(`Fetching ${component} from snapshot (size: ...)`)
LogFetchFromSnapshotStep(r, ok) ==
  IF ~ok THEN InnerThrow(r, Err("IOError"))
  ELSE [Emit(r, Line("fetchFromSnapshot", current(r), ""))
          EXCEPT !.pc = "fetchSnapshotData"]

\* await job.log(`Fetching ${component} from live instance ...`)
LogFetchFromLiveStep(r, ok) ==
  IF ~ok THEN InnerThrow(r, Err("IOError"))
  ELSE [Emit(r, Line("fetchFromLive", current(r), "")) EXCEPT !.pc = "fetchLive"]

\* The log call that follows the fetch.
afterFetch(v) == IF v = "part_000" THEN "logCreating" ELSE "logProcessing"

\* sourceData = await fetchSnapshotData(component, componentInfo.file):
\* a mock object, never a throw.
FetchSnapshotDataStep(v, r) ==
  [r EXCEPT !.fetched = Append(@, [from |-> "snapshot", comp |-> current(r)]),
            !.pc = afterFetch(v)]

\* sourceData = await fetchLiveData(component, source.instanceInfo): null.
FetchLiveDataStep(v, r) ==
  [r EXCEPT !.fetched = Append(@, [from |-> "live", comp |-> current(r)]),
            !.pc = afterFetch(v)]

\* await job.log(`Processing ${component} (${currentStep + 1}/${totalSteps})`);
\* in queue.ts currentStep++ follows at once.
LogProcessingStep(v, r, ok) ==
  IF ~ok THEN InnerThrow(r, Err("IOError"))
  ELSE LET r1 == Emit(r, Line("processing", current(r), ""))
       IN IF v = "queue"
            THEN [r1 EXCEPT !.currentStep = @ + 1, !.pc = "updateProgress"]
            ELSE [r1 EXCEPT !.pc = "logCreating"]

\* await job.log(`Creating ${component} in target instance ...`); currentStep++
LogCreatingStep(r, ok) ==
  IF ~ok THEN InnerThrow(r, Err("IOError"))
  ELSE [Emit(r, Line("creating", current(r), ""))
          EXCEPT !.currentStep = @ + 1, !.pc = "updateProgress"]

\* A progress update that is not awaited: its rejection goes unseen and the
\* loop moves on.
UpdateProgressStep_unawaited(v, r, ok) ==
  IF ~ok THEN NextComponent(v, r)
  ELSE NextComponent(v,
         [r EXCEPT !.progress = Append(@, << r.currentStep, r.totalSteps >>),
                   !.succeeded = Append(@, current(r)),
                   !.logAtDone = Append(@, Len(r.log))])

\* await job.updateProgress((currentStep / totalSteps) * 100)
UpdateProgressStep(v, r, ok) ==
  IF ~ok THEN InnerThrow(r, Err("IOError"))
  ELSE NextComponent(v,
         [r EXCEPT !.progress = Append(@, << r.currentStep, r.totalSteps >>),
                   !.succeeded = Append(@, current(r)),
                   !.logAtDone = Append(@, Len(r.log))])

\* An inner catch that logs and goes on with the next component.
InnerCatchStep_swallow(v, r, ok) ==
  IF ~ok THEN OuterThrow(r, Err("IOError"))
  ELSE NextComponent(v,
         [Emit(r, Line("errorProcessing", current(r), r.error.kind))
            EXCEPT !.error = NoError])

\* catch (error) { await job.log(`Error processing ...`); throw error; }
InnerCatchStep(v, r, ok) ==
  IF ~ok THEN OuterThrow(r, Err("IOError"))
  ELSE OuterThrow(Emit(r, Line("errorProcessing", current(r), r.error.kind)),
                  r.error)

\* catch (error) { await job.log(`Fatal error ...`); throw error; }
OuterCatchStep(r, ok) ==
  IF ~ok THEN Fail(r, Err("IOError"))
  ELSE Fail(Emit(r, Line("fatal", "", r.error.kind)), r.error)

\* ---------------------------------------------------- identifier translator
\* The mapping table: a set of IdMapping entries, and the outcome of the
\* last call (prev: the target id the key had before the call, 0 for none).
EntityTypes == {"groups", "macros"}

Ids == 1..MaxId

NoCall ==
  [op |-> "none", entityType |-> "", sourceId |-> 0, prev |-> 0,
   status |-> "none", targetId |-> 0]

EmptyTranslator == [table |-> {}, last |-> NoCall]

HasMapping(table, entityType, sourceId) ==
  \E m \in table : m.entityType = entityType /\ m.sourceId = sourceId

\* The target id recorded for a key, 0 when there is none.
Lookup(table, entityType, sourceId) ==
  IF HasMapping(table, entityType, sourceId)
    THEN (CHOOSE m \in table :
            m.entityType = entityType /\ m.sourceId = sourceId).targetId
    ELSE 0

\* A record that silently overwrites an existing mapping.
record_overwrite(t, entityType, sourceId, targetId) ==
  [table |-> {m \in t.table :
                ~(m.entityType = entityType /\ m.sourceId = sourceId)}
             \cup {[entityType |-> entityType, sourceId |-> sourceId,
                     targetId |-> targetId]},
   last |-> [op |-> "record", entityType |-> entityType, sourceId |-> sourceId,
             prev |-> Lookup(t.table, entityType, sourceId),
             status |-> "ok", targetId |-> targetId]]

\* record(entityType, sourceId, targetId, metadata): inserts, or fails with
\* DuplicateMapping and leaves the table as it is.
record(t, entityType, sourceId, targetId) ==
  IF HasMapping(t.table, entityType, sourceId)
    THEN [table |-> t.table,
          last |-> [op |-> "record", entityType |-> entityType,
                    sourceId |-> sourceId,
                    prev |-> Lookup(t.table, entityType, sourceId),
                    status |-> "DuplicateMapping", targetId |-> 0]]
    ELSE [table |-> t.table \cup {[entityType |-> entityType,
                                    sourceId |-> sourceId,
                                    targetId |-> targetId]},
          last |-> [op |-> "record", entityType |-> entityType,
                    sourceId |-> sourceId, prev |-> 0,
                    status |-> "ok", targetId |-> targetId]]

\* resolve(entityType, sourceId) -> targetId | NotFound
resolve(t, entityType, sourceId) ==
  [table |-> t.table,
   last |-> [op |-> "resolve", entityType |-> entityType, sourceId |-> sourceId,
             prev |-> Lookup(t.table, entityType, sourceId),
             status |-> IF HasMapping(t.table, entityType, sourceId)
                          THEN "ok" ELSE "NotFound",
             targetId |-> Lookup(t.table, entityType, sourceId)]]

RecordCall ==
  /\ \E e \in EntityTypes, sid \in Ids, tid \in Ids :
       translator' = record(translator, e, sid, tid)
  /\ UNCHANGED <<variant, run, run2, intake>>

ResolveCall ==
  /\ \E e \in EntityTypes, sid \in Ids :
       translator' = resolve(translator, e, sid)
  /\ UNCHANGED <<variant, run, run2, intake>>

NextTranslator ==
  \/ RecordCall
  \/ ResolveCall

\* ------------------------------------------------------------------ intake
\* POST /migration of index.ts (both revisions of the handler take the same
\* steps).  clock is Date.now(); a request is at "none" before it arrives,
\* "adding" while migrationQueue.add is pending, "added" once the job is in
\* the queue and the awaited promise has resolved, "done" after reply.send,
\* "rejected" when add rejected and the framework answered with the error.
Requests == 1..MaxRequests

NoRequest == [pc |-> "none", jobId |-> << "migration", -1 >>]

EmptyIntake ==
  [clock |-> 0, reqs |-> [q \in Requests |-> NoRequest],
   queue |-> << >>, replies |-> << >>]

\* `migration-${Date.now()}`
jobIdOf(now) == << "migration", now >>

\* A handler that does not await migrationQueue.add.
HandlerStart_unawaited(s, q) ==
  [s EXCEPT !.reqs[q] = [pc |-> "added", jobId |-> jobIdOf(s.clock)]]

\* const jobId = ...; await migrationQueue.add(jobId, {...}): up to the await.
HandlerStart(s, q) ==
  [s EXCEPT !.reqs[q] = [pc |-> "adding", jobId |-> jobIdOf(s.clock)]]

\* migrationQueue.add(name, data) resolves: the job is in the queue, under
\* the job name and with the data the handler passed (BullMQ names are not
\* unique).
AddResolved(s, q) ==
  [s EXCEPT !.reqs[q].pc = "added",
            !.queue = Append(@, [name |-> s.reqs[q].jobId,
                                 jobId |-> s.reqs[q].jobId, req |-> q])]

\* migrationQueue.add rejects: the async handler throws and the framework
\* sends its error reply.
AddRejected(s, q) ==
  [s EXCEPT !.reqs[q].pc = "rejected",
            !.replies = Append(@, [req |-> q, status |-> "error",
                                   jobId |-> s.reqs[q].jobId])]

\* reply.send({ jobId, status: 'queued', ... })
ReplySend(s, q) ==
  [s EXCEPT !.reqs[q].pc = "done",
            !.replies = Append(@, [req |-> q, status |-> "queued",
                                   jobId |-> s.reqs[q].jobId])]

Tick ==
  /\ intake.clock < MaxClock
  /\ intake' = [intake EXCEPT !.clock = @ + 1]
  /\ UNCHANGED <<variant, run, run2, translator>>

Post ==
  /\ \E q \in Requests :
       /\ intake.reqs[q].pc = "none"
       /\ intake' = HandlerStart(intake, q)
  /\ UNCHANGED <<variant, run, run2, translator>>

AddResolves ==
  /\ \E q \in Requests :
       /\ intake.reqs[q].pc = "adding"
       /\ intake' = AddResolved(intake, q)
  /\ UNCHANGED <<variant, run, run2, translator>>

AddRejects ==
  /\ \E q \in Requests :
       /\ intake.reqs[q].pc = "adding"
       /\ intake' = AddRejected(intake, q)
  /\ UNCHANGED <<variant, run, run2, translator>>

Reply ==
  /\ \E q \in Requests :
       /\ intake.reqs[q].pc = "added"
       /\ intake' = ReplySend(intake, q)
  /\ UNCHANGED <<variant, run, run2, translator>>

NextIntake ==
  \/ Tick
  \/ Post
  \/ AddResolves
  \/ AddRejects
  \/ Reply

\* ----------------------------------------------------------------- actions
\* The Worker hands the processor its next job.
PickUp ==
  /\ run.pc = "idle"
  /\ \E d \in JobData(variant) : run' = WorkerStart(variant, d)
  /\ UNCHANGED <<variant, run2, translator, intake>>

LogInit ==
  /\ run.pc = "logInit"
  /\ \E ok \in BOOLEAN : run' = LogInitStep(variant, run, ok)
  /\ UNCHANGED <<variant, run2, translator, intake>>

LogFetchingSnapshot ==
  /\ run.pc = "logFetchingSnapshot"
  /\ \E ok \in BOOLEAN : run' = LogFetchingSnapshotStep(run, ok)
  /\ UNCHANGED <<variant, run2, translator, intake>>

FetchSnapshot ==
  /\ run.pc = "fetchSnapshot"
  /\ run' = FetchSnapshotStep(run)
  /\ UNCHANGED <<variant, run2, translator, intake>>

LogValidating ==
  /\ run.pc = "logValidating"
  /\ \E ok \in BOOLEAN : run' = LogValidatingStep(run, ok)
  /\ UNCHANGED <<variant, run2, translator, intake>>

Validate ==
  /\ run.pc = "validate"
  /\ run' = ValidateStep(variant, run)
  /\ UNCHANGED <<variant, run2, translator, intake>>

LogValidated ==
  /\ run.pc = "logValidated"
  /\ \E ok \in BOOLEAN : run' = LogValidatedStep(variant, run, ok)
  /\ UNCHANGED <<variant, run2, translator, intake>>

LogStart ==
  /\ run.pc = "logStart"
  /\ \E ok \in BOOLEAN : run' = LogStartStep(variant, run, ok)
  /\ UNCHANGED <<variant, run2, translator, intake>>

LogFetchFromSnapshot ==
  /\ run.pc = "logFetchFromSnapshot"
  /\ \E ok \in BOOLEAN : run' = LogFetchFromSnapshotStep(run, ok)
  /\ UNCHANGED <<variant, run2, translator, intake>>

LogFetchFromLive ==
  /\ run.pc = "logFetchFromLive"
  /\ \E ok \in BOOLEAN : run' = LogFetchFromLiveStep(run, ok)
  /\ UNCHANGED <<variant, run2, translator, intake>>

FetchSnapshotData ==
  /\ run.pc = "fetchSnapshotData"
  /\ run' = FetchSnapshotDataStep(variant, run)
  /\ UNCHANGED <<variant, run2, translator, intake>>

FetchLiveData ==
  /\ run.pc = "fetchLive"
  /\ run' = FetchLiveDataStep(variant, run)
  /\ UNCHANGED <<variant, run2, translator, intake>>

LogProcessing ==
  /\ run.pc = "logProcessing"
  /\ \E ok \in BOOLEAN : run' = LogProcessingStep(variant, run, ok)
  /\ UNCHANGED <<variant, run2, translator, intake>>

LogCreating ==
  /\ run.pc = "logCreating"
  /\ \E ok \in BOOLEAN : run' = LogCreatingStep(run, ok)
  /\ UNCHANGED <<variant, run2, translator, intake>>

UpdateProgress ==
  /\ run.pc = "updateProgress"
  /\ \E ok \in BOOLEAN : run' = UpdateProgressStep(variant, run, ok)
  /\ UNCHANGED <<variant, run2, translator, intake>>

InnerCatch ==
  /\ run.pc = "logComponentError"
  /\ \E ok \in BOOLEAN : run' = InnerCatchStep(variant, run, ok)
  /\ UNCHANGED <<variant, run2, translator, intake>>

OuterCatch ==
  /\ run.pc = "logFatal"
  /\ \E ok \in BOOLEAN : run' = OuterCatchStep(run, ok)
  /\ UNCHANGED <<variant, run2, translator, intake>>

\* The Worker records the processor's outcome and is free for the next job.
Release ==
  /\ Terminal(run)
  /\ run' = IdleRun
  /\ UNCHANGED <<variant, run2, translator, intake>>

\* One step of the processor, by the await it stands at.
StepOf(v, r, ok) ==
  CASE r.pc = "logInit" -> LogInitStep(v, r, ok)
    [] r.pc = "logFetchingSnapshot" -> LogFetchingSnapshotStep(r, ok)
    [] r.pc = "fetchSnapshot" -> FetchSnapshotStep(r)
    [] r.pc = "logValidating" -> LogValidatingStep(r, ok)
    [] r.pc = "validate" -> ValidateStep(v, r)
    [] r.pc = "logValidated" -> LogValidatedStep(v, r, ok)
    [] r.pc = "logStart" -> LogStartStep(v, r, ok)
    [] r.pc = "logFetchFromSnapshot" -> LogFetchFromSnapshotStep(r, ok)
    [] r.pc = "logFetchFromLive" -> LogFetchFromLiveStep(r, ok)
    [] r.pc = "fetchSnapshotData" -> FetchSnapshotDataStep(v, r)
    [] r.pc = "fetchLive" -> FetchLiveDataStep(v, r)
    [] r.pc = "logProcessing" -> LogProcessingStep(v, r, ok)
    [] r.pc = "logCreating" -> LogCreatingStep(r, ok)
    [] r.pc = "updateProgress" -> UpdateProgressStep(v, r, ok)
    [] r.pc = "logComponentError" -> InnerCatchStep(v, r, ok)
    [] r.pc = "logFatal" -> OuterCatchStep(r, ok)
    [] OTHER -> r

InFlight(r) == r.pc \notin {"idle", "completed", "failed"}

\* Jobs of the two-job runs: a snapshot job and a live
\* job for each revision.
ConcJobData(v) ==
  IF v = "part_000"
    THEN {[srcType |-> "live", snapshotId |-> "absent",
           components |-> << >>,
           ignoredItems |->
             filterSeq(MIGRATION_ORDER,
                       Range(MIGRATION_ORDER) \ {"groups", "ticket_fields"})],
          [srcType |-> "snapshot", snapshotId |-> "1",
           components |-> << >>,
           ignoredItems |->
             filterSeq(MIGRATION_ORDER,
                       Range(MIGRATION_ORDER) \ {"ticket_forms"})]}
  ELSE IF v = "part_001"
    THEN {[srcType |-> "live", snapshotId |-> "absent",
           components |-> << "ticket_fields", "groups" >>,
           ignoredItems |-> << >>],
          [srcType |-> "snapshot", snapshotId |-> "1",
           components |-> << "ticket_forms", "ticket_fields" >>,
           ignoredItems |-> << >>]}
  ELSE {[srcType |-> "live", snapshotId |-> "absent",
         components |-> << "ticket_fields", "groups" >>,
         ignoredItems |-> << >>],
        [srcType |-> "snapshot", snapshotId |-> "1",
         components |-> << "groups" >>, ignoredItems |-> << >>]}

\* The first invocation is handed one of the two-job runs' jobs.
ConcPickUp ==
  /\ run.pc = "idle"
  /\ \E d \in ConcJobData(variant) : run' = WorkerStart(variant, d)
  /\ UNCHANGED <<variant, run2, translator, intake>>

\* The second invocation is handed a job.
PickUp2 ==
  /\ run2.pc = "idle"
  /\ \E d \in ConcJobData(variant) : run2' = WorkerStart(variant, d)
  /\ UNCHANGED <<variant, run, translator, intake>>

\* A processor whose step counter is one module-level variable: a step of
\* the second invocation writes the counter the first one reads.
Step2_sharedCounter ==
  /\ InFlight(run2)
  /\ \E ok \in BOOLEAN : run2' = StepOf(variant, run2, ok)
  /\ run' = [run EXCEPT !.currentStep = run2'.currentStep]
  /\ UNCHANGED <<variant, translator, intake>>

\* A step of the second invocation: every variable the processor writes
\* is a local of the callback or a field of its own job.
Step2 ==
  /\ InFlight(run2)
  /\ \E ok \in BOOLEAN : run2' = StepOf(variant, run2, ok)
  /\ UNCHANGED <<variant, run, translator, intake>>

Release2 ==
  /\ Terminal(run2)
  /\ run2' = IdleRun
  /\ UNCHANGED <<variant, run, translator, intake>>

\* The steps of the first invocation.
Steps ==
  \/ LogInit
  \/ LogFetchingSnapshot
  \/ FetchSnapshot
  \/ LogValidating
  \/ Validate
  \/ LogValidated
  \/ LogStart
  \/ LogFetchFromSnapshot
  \/ LogFetchFromLive
  \/ FetchSnapshotData
  \/ FetchLiveData
  \/ LogProcessing
  \/ LogCreating
  \/ UpdateProgress
  \/ InnerCatch
  \/ OuterCatch

Next ==
  \/ PickUp
  \/ Release
  \/ Steps

\* A cancellation of the job in flight is asked for while it migrates.
\* No revision of the processor reads a cancellation signal.
RequestCancel ==
  /\ InFlight(run)
  /\ run.started # << >>
  /\ run.cancelAt = -1
  /\ run' = [run EXCEPT !.cancelAt = Len(run.started)]
  /\ UNCHANGED <<variant, run2, translator, intake>>

NextCancel ==
  \/ Next
  \/ RequestCancel

NextConc ==
  \/ ConcPickUp
  \/ Release
  \/ Steps
  \/ PickUp2
  \/ Step2
  \/ Release2

Init ==
  /\ variant \in Variants
  /\ run = IdleRun
  /\ run2 = IdleRun
  /\ translator = EmptyTranslator
  /\ intake = EmptyIntake

Spec == Init /\ [][Next]_vars

\* ------------------------------------------- validateSnapshot on any input
\* Breakdowns handed to validateSnapshot: any subset of the request names,
\* and a breakdown holding the whole catalog.
BreakdownSets ==
  (SUBSET PoolNames)
    \cup {Range(MIGRATION_ORDER), Range(MIGRATION_ORDER) \ {"groups"}}

SnapshotInputs ==
  {NullSnapshot}
    \cup [isNull : {FALSE}, hasBreakdown : {TRUE},
          breakdown : BreakdownSets, locked : BOOLEAN]
    \cup [isNull : {FALSE}, hasBreakdown : {FALSE},
          breakdown : {{}}, locked : BOOLEAN]

\* The processor of a snapshot job at its validateSnapshot call, every call
\* before it having returned.
AtValidate(v, d) ==
  IF v = "queue" THEN LogInitStep(v, WorkerStart(v, d), TRUE)
  ELSE LogValidatingStep(
         FetchSnapshotStep(
           LogFetchingSnapshotStep(LogInitStep(v, WorkerStart(v, d), TRUE), TRUE)),
         TRUE)

\* The first job stands at its validateSnapshot call with a snapshot drawn
\* from SnapshotInputs, as a snapshot store would hand it over.
InitValidate ==
  /\ variant \in Variants
  /\ \E d \in JobData(variant), s \in SnapshotInputs :
       /\ d.srcType = "snapshot"
       /\ d.snapshotId = "1"
       /\ run = [AtValidate(variant, d) EXCEPT !.snapshot = s]
  /\ run2 = IdleRun
  /\ translator = EmptyTranslator
  /\ intake = EmptyIntake

SpecValidate == InitValidate /\ [][Next]_vars

\* Two invocations of the processor side by side, their steps interleaved.
SpecConc == Init /\ [][NextConc]_vars

\* The worker with cancellation requests arriving.
SpecCancel == Init /\ [][NextCancel]_vars

\* The translator alone, from an empty table.
SpecTranslator == Init /\ [][NextTranslator]_vars

\* The worker with every awaited call settling: a processor standing at an
\* await takes its step in the end.
SpecLive == Init /\ [][Next]_vars /\ WF_vars(Steps)

\* The intake handler alone, serving up to MaxRequests requests.
SpecIntake == Init /\ [][NextIntake]_vars

\* ------------------------------------------------------------------ claims
\* What a job asks to have migrated: its components, or the catalog less
\* its ignoredItems.
ToMigrate(v, d) ==
  IF v = "part_000" THEN Range(MIGRATION_ORDER) \ Range(d.ignoredItems)
                    ELSE Range(d.components)

NumToMigrate(v, d) ==
  IF v = "part_000" THEN Cardinality(ToMigrate(v, d)) ELSE Len(d.components)

HasUnknownName(d) ==
  \E c \in Range(d.components) \cup Range(d.ignoredItems) : indexOf(c) = -1

\* C1: components of one job are started in strictly increasing catalog
\* position, whatever the requested list.
C1_StrictCatalogOrder ==
  \A a, b \in 1..Len(run.started) :
    a < b => indexOf(run.started[a]) < indexOf(run.started[b])

\* C2: a snapshot-based job (source type snapshot with or without a truthy
\* snapshotId, or a job of the first intake handler carrying a snapshotId)
\* starts no component unless its snapshot was resolved and validateSnapshot
\* returned successfully.
C2_SnapshotValidatedBeforeSteps ==
  LET d == run.data
      snapshotBased ==
        \/ d.srcType = "snapshot"
        \/ variant = "part_000" /\ d.srcType = "undefined" /\ Truthy(d.snapshotId)
  IN (snapshotBased /\ run.started # << >>)
       => (run.validated /\ ~run.vsnapshot.isNull /\ run.vsnapshot.hasBreakdown)

\* C3: the k-th progress report of a job is 100 * k / n, n the number of
\* components the job is to migrate, and the last report of a completed job
\* of n >= 1 components is 100.
C3_ProgressIsShareOfMigrated ==
  LET n == NumToMigrate(variant, run.data)
  IN /\ \A k \in 1..Len(run.progress) :
          run.progress[k][1] * n = k * run.progress[k][2]
     /\ (run.pc = "completed" /\ n >= 1)
          => /\ run.progress # << >>
             /\ run.progress[Len(run.progress)][1]
                  = run.progress[Len(run.progress)][2]

\* C4: a job naming a component the catalog does not know is rejected with
\* a validation error (unless the queue layer rejected a log call first) and
\* starts no component.
C4_UnknownNamesRejected ==
  HasUnknownName(run.data)
    => /\ run.started = << >>
       /\ Terminal(run)
            => (run.pc = "failed" /\ run.error.kind \in {"Validation", "IOError"})

\* C5: once a component step of a job has failed, no further component of
\* that job is started and the job ends failed, never completed.
C5_FailFast ==
  run.failedAt > 0
    => /\ Len(run.started) = run.failedAt
       /\ run.pc \in {"logComponentError", "logFatal", "failed"}
       /\ Len(run.succeeded) = run.failedAt - 1

C5_Witness ==
  /\ run.pc = "failed"
  /\ run.failedAt = 1
  /\ Len(run.list) >= 2

\* C6: the result is 'completed' only when every component the job asked
\* for has succeeded; every other terminal outcome is failed.
C6_CompletedOnlyIfAllSucceeded ==
  /\ run.result.status = "completed"
       => /\ run.pc = "completed"
          /\ Len(run.succeeded) = NumToMigrate(variant, run.data)
          /\ Range(run.succeeded) = ToMigrate(variant, run.data)
  /\ (Terminal(run) /\ run.pc # "completed") => run.result.status = "failed"

C6_Witness ==
  /\ run.pc = "completed"
  /\ run.succeeded = << "groups", "ticket_fields" >>

\* C7: a snapshot job whose snapshotId does not resolve ends failed with a
\* snapshot-not-found error (unless the queue layer rejected a log call),
\* having started no component, called no adapter and reported no progress.
C7_UnresolvedSnapshotFails ==
  (usesSnapshot(run.data) /\ run.data.snapshotId # "1")
    => /\ run.started = << >>
       /\ run.fetched = << >>
       /\ run.progress = << >>
       /\ Terminal(run)
            => (run.pc = "failed" /\ run.error.kind \in {"NotFound", "IOError"})

\* A component is absent from a snapshot's breakdown: the breakdown has no
\* entry of that name.
Absent(s, c) == ~s.isNull /\ s.hasBreakdown /\ c \notin s.breakdown

\* C8: validateSnapshot fails with the Locked error for every locked
\* snapshot whose breakdown holds all required components, and the job
\* using it starts no component.
C8_LockedRejected ==
  ( /\ run.vcalled
    /\ ~run.vsnapshot.isNull
    /\ run.vsnapshot.hasBreakdown
    /\ run.vsnapshot.locked
    /\ Range(run.vcomponents) \subseteq run.vsnapshot.breakdown )
    => /\ run.vout.kind = "Locked"
       /\ ~run.validated
       /\ run.started = << >>
       /\ run.pc \in {"logFatal", "failed"}

C8_Witness ==
  /\ run.vcalled
  /\ run.vsnapshot.locked
  /\ run.vsnapshot.hasBreakdown
  /\ run.vcomponents # << >>
  /\ Range(run.vcomponents) \subseteq run.vsnapshot.breakdown
  /\ run.pc = "failed"

\* C9: validateSnapshot fails with the missing-components error exactly
\* when a required component is absent from the breakdown, and the error
\* names all the absent required components and no other.
C9_MissingNamesAllAbsent ==
  run.vcalled
    => LET A == {c \in Range(run.vcomponents) : Absent(run.vsnapshot, c)}
       IN /\ (run.vout.kind = "Missing") <=> (A # {})
          /\ run.vout.kind = "Missing" => Range(run.vout.names) = A

\* C10: the result of a completed job carries the list of IdMapping
\* entries of the run (no record is created in any revision, so the list
\* is empty wherever it is present).
C10_CompletedCarriesIdMappings ==
  run.pc = "completed"
    => (run.result.hasIdMappings /\ run.result.idMappings = << >>)

\* C11: the mapping table holds at most one entry per (entityType,
\* sourceId); a record call on a key already present fails with
\* DuplicateMapping and leaves that key's target id as it was.
C11_NoDuplicateMapping ==
  /\ \A m1, m2 \in translator.table :
       (m1.entityType = m2.entityType /\ m1.sourceId = m2.sourceId) => m1 = m2
  /\ (translator.last.op = "record" /\ translator.last.prev # 0)
       => /\ translator.last.status = "DuplicateMapping"
          /\ Lookup(translator.table, translator.last.entityType,
                    translator.last.sourceId) = translator.last.prev

C11_Witness ==
  /\ translator.last.op = "record"
  /\ translator.last.status = "DuplicateMapping"
  /\ translator.last.prev = 1
  /\ Cardinality(translator.table) >= 2

\* C12: when a job ends failed because a component step failed, the error
\* the processor throws carries the failing component's name and the
\* underlying error message.
C12_FailureNamesComponent ==
  (run.pc = "failed" /\ run.failedAt > 0)
    => /\ run.error.kind # "none"
       /\ run.started[run.failedAt] \in Range(run.error.names)

\* C13: the components of a job run one after the other: at most one is
\* in flight, and a component is started only when every component ahead
\* of it in the job's list has succeeded and had its progress reported.
C13_Sequential ==
  /\ Len(run.started) - Len(run.succeeded) \in {0, 1}
  /\ run.succeeded = SubSeq(run.started, 1, Len(run.succeeded))
  /\ Len(run.progress) = Len(run.succeeded)
  /\ run.started = SubSeq(run.list, 1, Len(run.started))
  /\ run.pc \in {"logStart", "logFetchFromSnapshot", "logFetchFromLive",
                 "fetchSnapshotData", "fetchLive", "logProcessing",
                 "logCreating", "updateProgress"}
       => Len(run.started) = Len(run.succeeded) + 1

C13_Witness ==
  /\ run.pc = "logStart"
  /\ Len(run.started) = 2
  /\ Len(run.succeeded) = 1
  /\ Len(run.progress) = 1

\* Every state a job of ConcJobData passes through when its invocation of
\* the processor runs alone.
RECURSIVE SoloClosure(_, _)
SoloClosure(v, S) ==
  LET N == S \cup {StepOf(v, r, ok) : r \in S, ok \in BOOLEAN}
  IN IF N = S THEN S ELSE SoloClosure(v, N)

SoloStates ==
  [v \in Variants |->
     {IdleRun} \cup SoloClosure(v, {WorkerStart(v, d) : d \in ConcJobData(v)})]

\* C14: with the steps of two jobs interleaved in any order, each job's
\* started components, progress reports, component list and result are
\* those of a run of that job alone.
C14_NoInterference ==
  /\ run \in SoloStates[variant]
  /\ run2 \in SoloStates[variant]

C14_Witness ==
  /\ run.pc = "completed"
  /\ run2.pc = "updateProgress"
  /\ run.list # run2.list
  /\ Len(run.succeeded) >= 2
  /\ Len(run2.succeeded) >= 1

\* C15: a cancellation asked for while a job migrates takes effect at the
\* next component boundary: no further component is started, and the job
\* ends failed with a CancellationError (or with the error of the component
\* in flight, if the queue layer rejects one of its calls).
C15_CancelledAtBoundary ==
  run.cancelAt >= 1
    => /\ Len(run.started) = run.cancelAt
       /\ (Terminal(run) /\ run.cancelAt < Len(run.list))
            => /\ run.pc = "failed"
               /\ run.error.kind \in {"Cancellation", "IOError"}

\* C16: every progress report of a job lies between 0 and 100, and each
\* report is at least the one before it, whatever the component list
\* (repeated names and the empty list included).
C16_ProgressBoundedMonotone ==
  /\ \A k \in 1..Len(run.progress) :
       /\ run.progress[k][2] > 0
       /\ 0 <= run.progress[k][1]
       /\ run.progress[k][1] <= run.progress[k][2]
  /\ \A k \in 1..(Len(run.progress) - 1) :
       run.progress[k][1] * run.progress[k + 1][2]
         <= run.progress[k + 1][1] * run.progress[k][2]

C16_Witness ==
  /\ run.data.components = << "groups", "groups" >>
  /\ run.progress = << << 1, 2 >>, << 2, 2 >> >>
  /\ run.pc = "completed"

\* C17: when a job completes, the components it started are exactly the
\* catalog-order listing of the requested names that are in the catalog and
\* not ignored, each started once and no other name started.
C17_StartedIsOrderedList ==
  run.pc = "completed"
    => run.started
         = filterSeq(MIGRATION_ORDER,
                     ToMigrate(variant, run.data) \cap Range(MIGRATION_ORDER))

\* C18: a snapshot job validates its snapshot against exactly the
\* components it will migrate, so an unlocked snapshot whose breakdown has
\* every component to migrate passes, whatever else the breakdown lacks.
C18_ValidatedAgainstMigrated ==
  (run.vcalled /\ run.data.srcType = "snapshot")
    => ((/\ ~run.vsnapshot.isNull
         /\ run.vsnapshot.hasBreakdown
         /\ ~run.vsnapshot.locked
         /\ ToMigrate(variant, run.data) \subseteq run.vsnapshot.breakdown)
          => run.vout.kind = "none")

\* C19: after component k+1 of a job of n components has failed, the k
\* earlier successes stand: the progress reports are still the k made before
\* the failure, the last of them 100 * k / n, and nothing recorded for the
\* earlier components is taken back.
C19_NoRollback ==
  LET n == NumToMigrate(variant, run.data)
      k == run.failedAt - 1
  IN run.failedAt > 0
       => /\ Len(run.succeeded) = k
          /\ Len(run.progress) = k
          /\ k >= 1 => run.progress[k][1] * n = k * run.progress[k][2]
          /\ Len(run.fetched) >= k

\* C20: a job that has ended failed has a log line carrying the message of
\* the error it failed with and, when a component step failed, the name of
\* that component, written before the processor threw.
C20_AbortLogged ==
  run.pc = "failed"
    => \E k \in 1..Len(run.log) :
         /\ run.log[k].err = run.error.kind
         /\ run.failedAt > 0 => run.log[k].comp = run.started[run.failedAt]

\* C21: every component that has succeeded has a start log line written
\* before its work and an end log line written after its work, the end line
\* standing before the start line of the next component.
C21_StartAndEndLines ==
  \A j \in 1..Len(run.succeeded) :
    (j < Len(run.started) \/ run.pc = "completed")
      => /\ \E a \in 1..run.logAtDone[j] :
              /\ run.log[a].kind = "starting"
              /\ run.log[a].comp = run.succeeded[j]
         /\ \E b \in (run.logAtDone[j] + 1)..Len(run.log) :
              /\ run.log[b].comp = run.succeeded[j]
              /\ run.log[b].kind # "starting"
              /\ j < Len(run.succeeded) => b <= run.logAtDone[j + 1]

\* C22: validateSnapshot fails with the Malformed (breakdown missing) error
\* for every snapshot without a breakdown section, whatever the required
\* components, the empty list included; the snapshot is never accepted and
\* no other kind of error is reported.
C22_NoBreakdownIsMalformed ==
  (run.vcalled /\ ~run.vsnapshot.isNull /\ ~run.vsnapshot.hasBreakdown)
    => /\ run.vout.kind = "Malformed"
       /\ ~run.validated

\* The status of the job the processor holds, read off the processor's
\* position: Queued until it is picked up, Validating from pickup until the
\* loop takes its first component, Migrating from then on, Completed on
\* return, Failed on throw.
Status(r) ==
  IF r.pc = "idle" THEN "Queued"
  ELSE IF r.pc = "completed" THEN "Completed"
  ELSE IF r.pc = "failed" THEN "Failed"
  ELSE IF r.started # << >> THEN "Migrating"
  ELSE "Validating"

\* The status changes of one job.  A job with nothing to migrate passes
\* from Validating through the empty loop to Completed in one step.
StatusEdge(v, r, s, t) ==
  \/ <<s, t>> \in {<<"Queued", "Validating">>, <<"Validating", "Migrating">>,
                   <<"Migrating", "Completed">>}
  \/ s \in {"Queued", "Validating", "Migrating"} /\ t = "Failed"
  \/ <<s, t>> = <<"Validating", "Completed">> /\ NumToMigrate(v, r.data) = 0

\* C23: the status of a job changes only along Queued -> Validating ->
\* Migrating -> Completed, or to Failed from a non-terminal status; once a
\* job is Completed or Failed nothing of it changes any more (no progress
\* report, no component start, no status change) until the worker lets go
\* of it.
C23_StatusTransitions ==
  [][/\ (Status(run) # Status(run') /\ ~Terminal(run))
          => StatusEdge(variant, run', Status(run), Status(run'))
     /\ Terminal(run) => (run' = run \/ run' = IdleRun)]_vars

C23_Witness ==
  /\ run.pc = "completed"
  /\ run.validated
  /\ Len(run.succeeded) >= 2

Accepted(q) == intake.reqs[q].pc = "done"

\* C24: any two requests the handler has accepted were given distinct job
\* ids, two requests of the same clock millisecond included, and no two
\* jobs in the queue share a job id.
C24_DistinctJobIds ==
  /\ \A a, b \in Requests :
       (a # b /\ Accepted(a) /\ Accepted(b))
         => intake.reqs[a].jobId # intake.reqs[b].jobId
  /\ \A i, j \in 1..Len(intake.queue) :
       i # j => intake.queue[i].jobId # intake.queue[j].jobId

\* C25: a reply with status queued is sent only after the job was added:
\* its job id is that of a job in the queue, added for that request, and a
\* request whose add failed gets no queued reply.
C25_QueuedAfterAdd ==
  \A k \in 1..Len(intake.replies) :
    intake.replies[k].status = "queued"
      => /\ \E i \in 1..Len(intake.queue) :
              /\ intake.queue[i].jobId = intake.replies[k].jobId
              /\ intake.queue[i].req = intake.replies[k].req
         /\ intake.reqs[intake.replies[k].req].pc # "rejected"

C25_Witness ==
  /\ \E k \in 1..Len(intake.replies) : intake.replies[k].status = "queued"
  /\ \E q \in Requests : intake.reqs[q].pc = "rejected"

\* C26: every job the worker has picked up reaches Completed or Failed,
\* each awaited call settling in the end; the loop starts no more
\* components than the list holds.
C26_JobTerminates ==
  /\ [](Len(run.started) <= Len(run.list) /\ run.i <= Len(run.list))
  /\ (InFlight(run) ~> Terminal(run))

C26_Witness ==
  /\ run.pc = "failed"
  /\ Len(run.list) = 2
  /\ Len(run.succeeded) = 1
  /\ run.failedAt = 2
====
